---- MODULE Spec2Model ----
(***************************************************************************)
(* A model of clfs/cryptopals, sets 1 and 2: the ECB and CBC mode engines  *)
(* (CryptBlocks over caller-supplied buffers), the encryption oracles, the *)
(* probe toolkit (FindBlockSize, IsECBOracle) and the byte-at-a-time       *)
(* recovery of an ECB oracle's secret.                                     *)
(*                                                                         *)
(* Bytes are the integers 0..255.  Memory is one flat sequence of bytes;   *)
(* a Go slice is a record [off, len] into it (off is 0-based, as in Go),   *)
(* so that two slices alias exactly when their address ranges meet.        *)
(* The block cipher (crypto/aes behind cipher.Block) is a keyed bijection  *)
(* on blocks of bs bytes; only that it is a bijection, and that Decrypt    *)
(* inverts Encrypt, is used.                                               *)
(***************************************************************************)
EXTENDS Integers, Sequences, FiniteSets, TLC

\* math.MaxUint8
MaxUint8 == 255

\* Largest cipher block size of the model (block sizes are 2..MaxBS).
MaxBS == 3
\* Largest cipher key of the model (keys are 0..MaxKey).
MaxKey == 1

Byte == 0..MaxUint8
BlockSizes == 2..MaxBS
Keys == 0..MaxKey

Min(a, b) == IF a < b THEN a ELSE b

\* bytes.Repeat([]byte{b}, n)
Repeat(b, n) == [i \in 1..n |-> b]

\* make([]byte, n)
Zeros(n) == Repeat(0, n)

RECURSIVE XorBits(_, _, _)
XorBits(a, b, w) ==
    IF w = 0 THEN 0
    ELSE ((a + b) % 2) + 2 * XorBits(a \div 2, b \div 2, w - 1)

\* a ^ b on bytes
XorByte(a, b) == XorBits(a, b, 8)

\* subtle.XORBytes(dst, x, y): the XOR of the first min(len(x), len(y)) bytes.
XORBytes(x, y) == [i \in 1..Min(Len(x), Len(y)) |-> XorByte(x[i], y[i])]

(***************************************************************************)
(* The block cipher primitive: cipher.Block.Encrypt / Decrypt on one       *)
(* block.  Encrypt rotates the block by one byte and maps each byte        *)
(* through an affine bijection of 0..255 that depends on the key and the   *)
(* position; Decrypt is computed on its own, by undoing each step.         *)
(***************************************************************************)
BlockEncrypt(k, blk) ==
    LET n == Len(blk)
    IN  [i \in 1..n |-> (5 * blk[(i % n) + 1] + k * (2 * i + 1)) % 256]

BlockDecrypt(k, blk) ==
    LET n == Len(blk)
    IN  [j \in 1..n |->
            LET i == ((j + n - 2) % n) + 1
            IN  (205 * (blk[i] - k * (2 * i + 1))) % 256]

(***************************************************************************)
(* Memory and slices.                                                      *)
(***************************************************************************)
Slice(off, len) == [off |-> off, len |-> len]

\* s[a:b]
Sub(s, a, b) == Slice(s.off + a, b - a)

\* the bytes a slice denotes
Read(mem, s) == SubSeq(mem, s.off + 1, s.off + s.len)

\* copy of bytes into memory at offset off
Write(mem, off, bytes) ==
    SubSeq(mem, 1, off) \o bytes \o SubSeq(mem, off + Len(bytes) + 1, Len(mem))

\* The outcome of a call: panic is "" when the call returned.
Returned(mem) == [panic |-> "", mem |-> mem]
Panicked(msg, mem) == [panic |-> msg, mem |-> mem]

(***************************************************************************)
(* ECB mode engine: ecbEncrypter / ecbDecrypter.  CryptBlocks(dst, src)    *)
(* acts on memory mem under key k and block size bs.                       *)
(***************************************************************************)
\* for len(src) > 0 { e.b.Encrypt(dst, src); src = src[bs:]; dst = dst[bs:] }
RECURSIVE ecbEncryptLoop(_, _, _, _, _)
ecbEncryptLoop(k, bs, mem, dst, src) ==
    IF src.len > 0
    THEN ecbEncryptLoop(k, bs,
             Write(mem, dst.off, BlockEncrypt(k, Read(mem, Sub(src, 0, bs)))),
             Sub(dst, bs, dst.len), Sub(src, bs, src.len))
    ELSE mem

ecbEncrypterCryptBlocks(k, bs, mem, dst, src) ==
    IF src.len % bs # 0 THEN Panicked("input not full blocks", mem)
    ELSE IF dst.len < src.len THEN Panicked("dst too small", mem)
    ELSE IF src.len = 0 THEN Returned(mem)
    ELSE Returned(ecbEncryptLoop(k, bs, mem, dst, src))

\* Mutant: the loop advances src but not dst.
RECURSIVE MutEcbDecryptLoopDstStuck(_, _, _, _, _)
MutEcbDecryptLoopDstStuck(k, bs, mem, dst, src) ==
    IF src.len > 0
    THEN MutEcbDecryptLoopDstStuck(k, bs,
             Write(mem, dst.off, BlockDecrypt(k, Read(mem, Sub(src, 0, bs)))),
             dst, Sub(src, bs, src.len))
    ELSE mem

\* for len(src) > 0 { e.b.Decrypt(dst, src); src = src[bs:]; dst = dst[bs:] }
RECURSIVE ecbDecryptLoop(_, _, _, _, _)
ecbDecryptLoop(k, bs, mem, dst, src) ==
    IF src.len > 0
    THEN ecbDecryptLoop(k, bs,
             Write(mem, dst.off, BlockDecrypt(k, Read(mem, Sub(src, 0, bs)))),
             Sub(dst, bs, dst.len), Sub(src, bs, src.len))
    ELSE mem

\* Mutant: the room in dst is checked before the length of src.
MutEcbDecrypterDstCheckedFirst(k, bs, mem, dst, src) ==
    IF dst.len < src.len THEN Panicked("dst too small", mem)
    ELSE IF src.len % bs # 0 THEN Panicked("input not full blocks", mem)
    ELSE IF src.len = 0 THEN Returned(mem)
    ELSE Returned(ecbDecryptLoop(k, bs, mem, dst, src))

ecbDecrypterCryptBlocks(k, bs, mem, dst, src) ==
    IF src.len % bs # 0 THEN Panicked("input not full blocks", mem)
    ELSE IF dst.len < src.len THEN Panicked("dst too small", mem)
    ELSE IF src.len = 0 THEN Returned(mem)
    ELSE Returned(ecbDecryptLoop(k, bs, mem, dst, src))

(***************************************************************************)
(* CBC encryption, as the oracles use it: cipher.NewCBCEncrypter(block,    *)
(* iv) keeps its own copy of iv, and CryptBlocks chains forward,           *)
(* c_i = Encrypt(x_i XOR c_{i-1}) with c_{-1} = iv.                        *)
(***************************************************************************)
RECURSIVE cbcEncryptLoop(_, _, _, _, _, _)
cbcEncryptLoop(k, bs, mem, chain, dst, src) ==
    IF src.len > 0
    THEN LET c == BlockEncrypt(k, XORBytes(Read(mem, Sub(src, 0, bs)), chain))
         IN  cbcEncryptLoop(k, bs, Write(mem, dst.off, c), c,
                 Sub(dst, bs, dst.len), Sub(src, bs, src.len))
    ELSE mem

cbcEncrypterCryptBlocks(k, bs, iv, mem, dst, src) ==
    IF src.len % bs # 0 THEN Panicked("input not full blocks", mem)
    ELSE IF dst.len < src.len THEN Panicked("output smaller than input", mem)
    ELSE Returned(cbcEncryptLoop(k, bs, mem, iv, dst, src))

(***************************************************************************)
(* cbcDecrypter (package cryptopals).  c.iv is a slice: the caller's iv    *)
(* buffer after NewCBCDecrypter, and a clone the decrypter owns (at own)   *)
(* after the first CryptBlocks call over a non-empty src.                  *)
(***************************************************************************)
\* NewCBCDecrypter(b, iv): the decrypter keeps the caller's slice.
NewCBCDecrypter(bs, iv) ==
    IF iv.len # bs THEN [panic |-> "invalid iv length", iv |-> iv]
    ELSE [panic |-> "", iv |-> iv]

\* Mutant: the loop decrypts in place before it reads the previous block, as
\* a forward pass over dst would: it XORs with dst[prev:start].
RECURSIVE MutCbcDecryptBackLoopXorDst(_, _, _, _, _, _)
MutCbcDecryptBackLoopXorDst(k, bs, mem, dst, src, start) ==
    IF start > 0
    THEN LET end  == start + bs
             prev == start - bs
             m1 == Write(mem, dst.off + start,
                       BlockDecrypt(k, Read(mem, Sub(src, start, end))))
             m2 == Write(m1, dst.off + start,
                       XORBytes(Read(m1, Sub(dst, start, end)),
                                Read(m1, Sub(dst, prev, start))))
         IN  MutCbcDecryptBackLoopXorDst(k, bs, m2, dst, src, start - bs)
    ELSE mem

\* Mutant: the blocks after the first are processed from the lowest offset
\* to the highest.
RECURSIVE MutCbcDecryptForwardFrom(_, _, _, _, _, _, _)
MutCbcDecryptForwardFrom(k, bs, mem, dst, src, at, last) ==
    IF at <= last
    THEN LET m1 == Write(mem, dst.off + at,
                       BlockDecrypt(k, Read(mem, Sub(src, at, at + bs))))
             m2 == Write(m1, dst.off + at,
                       XORBytes(Read(m1, Sub(dst, at, at + bs)),
                                Read(m1, Sub(src, at - bs, at))))
         IN  MutCbcDecryptForwardFrom(k, bs, m2, dst, src, at + bs, last)
    ELSE mem

MutCbcDecryptForwardLoop(k, bs, mem, dst, src, start) ==
    MutCbcDecryptForwardFrom(k, bs, mem, dst, src, bs, start)

\* for start > 0 { Decrypt(dst[start:end], src[start:end]);
\*                 XORBytes(dst[start:end], dst[start:end], src[prev:start]); ... }
RECURSIVE cbcDecryptBackLoop(_, _, _, _, _, _)
cbcDecryptBackLoop(k, bs, mem, dst, src, start) ==
    IF start > 0
    THEN LET end  == start + bs
             prev == start - bs
             m1 == Write(mem, dst.off + start,
                       BlockDecrypt(k, Read(mem, Sub(src, start, end))))
             m2 == Write(m1, dst.off + start,
                       XORBytes(Read(m1, Sub(dst, start, end)),
                                Read(m1, Sub(src, prev, start))))
         IN  cbcDecryptBackLoop(k, bs, m2, dst, src, start - bs)
    ELSE mem

\* Mutant: the chaining state is never replaced (c.iv = tmp is left out).
MutCbcDecrypterKeepsIV(k, bs, mem, iv, own, dst, src) ==
    IF src.len % bs # 0 THEN [panic |-> "input not full blocks", mem |-> mem, iv |-> iv]
    ELSE IF dst.len < src.len THEN [panic |-> "dst too small", mem |-> mem, iv |-> iv]
    ELSE IF src.len = 0 THEN [panic |-> "", mem |-> mem, iv |-> iv]
    ELSE LET m1 == cbcDecryptBackLoop(k, bs, mem, dst, src, src.len - bs)
             m2 == Write(m1, dst.off, BlockDecrypt(k, Read(m1, Sub(src, 0, bs))))
             m3 == Write(m2, dst.off,
                       XORBytes(Read(m2, Sub(dst, 0, bs)), Read(m2, iv)))
         IN  [panic |-> "", mem |-> m3, iv |-> iv]

\* Mutant: the last block is cloned after the decryption, not before it.
MutCbcDecrypterLateClone(k, bs, mem, iv, own, dst, src) ==
    IF src.len % bs # 0 THEN [panic |-> "input not full blocks", mem |-> mem, iv |-> iv]
    ELSE IF dst.len < src.len THEN [panic |-> "dst too small", mem |-> mem, iv |-> iv]
    ELSE IF src.len = 0 THEN [panic |-> "", mem |-> mem, iv |-> iv]
    ELSE LET m1 == cbcDecryptBackLoop(k, bs, mem, dst, src, src.len - bs)
             m2 == Write(m1, dst.off, BlockDecrypt(k, Read(m1, Sub(src, 0, bs))))
             m3 == Write(m2, dst.off,
                       XORBytes(Read(m2, Sub(dst, 0, bs)), Read(m2, iv)))
             tmp == Read(m3, Sub(src, src.len - bs, src.len))
         IN  [panic |-> "", mem |-> Write(m3, own.off, tmp), iv |-> own]

\* Mutant: no early return on an empty src; the clone of no block at all
\* becomes the chaining state.
MutCbcDecrypterEmptyClones(k, bs, mem, iv, own, dst, src) ==
    IF src.len % bs # 0 THEN [panic |-> "input not full blocks", mem |-> mem, iv |-> iv]
    ELSE IF dst.len < src.len THEN [panic |-> "dst too small", mem |-> mem, iv |-> iv]
    ELSE IF src.len = 0 THEN [panic |-> "", mem |-> mem, iv |-> own]
    ELSE LET tmp == Read(mem, Sub(src, src.len - bs, src.len))
             m1 == cbcDecryptBackLoop(k, bs, mem, dst, src, src.len - bs)
             m2 == Write(m1, dst.off, BlockDecrypt(k, Read(m1, Sub(src, 0, bs))))
             m3 == Write(m2, dst.off,
                       XORBytes(Read(m2, Sub(dst, 0, bs)), Read(m2, iv)))
         IN  [panic |-> "", mem |-> Write(m3, own.off, tmp), iv |-> own]

cbcDecrypterCryptBlocks(k, bs, mem, iv, own, dst, src) ==
    IF src.len % bs # 0 THEN [panic |-> "input not full blocks", mem |-> mem, iv |-> iv]
    ELSE IF dst.len < src.len THEN [panic |-> "dst too small", mem |-> mem, iv |-> iv]
    ELSE IF src.len = 0 THEN [panic |-> "", mem |-> mem, iv |-> iv]
    ELSE LET \* tmp := bytes.Clone(src[start:end])
             tmp == Read(mem, Sub(src, src.len - bs, src.len))
             m1 == cbcDecryptBackLoop(k, bs, mem, dst, src, src.len - bs)
             \* The first block uses the IV.
             m2 == Write(m1, dst.off, BlockDecrypt(k, Read(m1, Sub(src, 0, bs))))
             m3 == Write(m2, dst.off,
                       XORBytes(Read(m2, Sub(dst, 0, bs)), Read(m2, iv)))
         IN  \* c.iv = tmp
             [panic |-> "", mem |-> Write(m3, own.off, tmp), iv |-> own]

(***************************************************************************)
(* alias.InexactOverlap(x, y): x and y share memory without starting at    *)
(* the same address.                                                       *)
(***************************************************************************)
AnyOverlap(x, y) ==
    /\ x.len > 0 /\ y.len > 0
    /\ x.off <= y.off + y.len - 1
    /\ y.off <= x.off + x.len - 1

InexactOverlap(x, y) ==
    IF x.len = 0 \/ y.len = 0 \/ x.off = y.off THEN FALSE
    ELSE AnyOverlap(x, y)

(***************************************************************************)
(* Package ecb: encrypter / decrypter, which also reject inexact overlap.  *)
(***************************************************************************)
ecb_encrypter_CryptBlocks(k, bs, mem, dst, src) ==
    IF src.len % bs # 0 THEN Panicked("ecb: input not full blocks", mem)
    ELSE IF dst.len < src.len THEN Panicked("ecb: output smaller than input", mem)
    ELSE IF InexactOverlap(Sub(dst, 0, src.len), src)
         THEN Panicked("ecb: invalid buffer overlap", mem)
    ELSE IF src.len = 0 THEN Returned(mem)
    ELSE Returned(ecbEncryptLoop(k, bs, mem, dst, src))

\* Mutant: the overlap is looked at after the blocks have been written.
MutEcbPkgDecrypterLateOverlapTest(k, bs, mem, dst, src) ==
    IF src.len % bs # 0 THEN Panicked("ecb: input not full blocks", mem)
    ELSE IF dst.len < src.len THEN Panicked("ecb: output smaller than input", mem)
    ELSE IF InexactOverlap(Sub(dst, 0, src.len), src)
         THEN Panicked("ecb: invalid buffer overlap", ecbDecryptLoop(k, bs, mem, dst, src))
    ELSE IF src.len = 0 THEN Returned(mem)
    ELSE Returned(ecbDecryptLoop(k, bs, mem, dst, src))

ecb_decrypter_CryptBlocks(k, bs, mem, dst, src) ==
    IF src.len % bs # 0 THEN Panicked("ecb: input not full blocks", mem)
    ELSE IF dst.len < src.len THEN Panicked("ecb: output smaller than input", mem)
    ELSE IF InexactOverlap(Sub(dst, 0, src.len), src)
         THEN Panicked("ecb: invalid buffer overlap", mem)
    ELSE IF src.len = 0 THEN Returned(mem)
    ELSE Returned(ecbDecryptLoop(k, bs, mem, dst, src))

(***************************************************************************)
(* Package cbc: decrypter.  d.iv is a slice: the caller's iv buffer after  *)
(* NewDecrypter, and the last block of the caller's src after a call.      *)
(***************************************************************************)
\* for len(src) > 0 { d.b.Decrypt(dst, src); subtle.XORBytes(dst, dst, d.iv);
\*                    d.iv = src[:bs]; src = src[bs:]; dst = dst[bs:] }
RECURSIVE cbc_decrypter_Loop(_, _, _, _, _, _)
cbc_decrypter_Loop(k, bs, mem, iv, dst, src) ==
    IF src.len > 0
    THEN LET m1 == Write(mem, dst.off, BlockDecrypt(k, Read(mem, Sub(src, 0, bs))))
             m2 == Write(m1, dst.off, XORBytes(Read(m1, dst), Read(m1, iv)))
         IN  cbc_decrypter_Loop(k, bs, m2, Sub(src, 0, bs),
                 Sub(dst, bs, dst.len), Sub(src, bs, src.len))
    ELSE [panic |-> "", mem |-> mem, iv |-> iv]

cbc_decrypter_CryptBlocks(k, bs, mem, iv, dst, src) ==
    IF src.len % bs # 0
    THEN [panic |-> "cbc: input not full blocks", mem |-> mem, iv |-> iv]
    ELSE IF dst.len < src.len
    THEN [panic |-> "cbc: output smaller than input", mem |-> mem, iv |-> iv]
    ELSE IF InexactOverlap(Sub(dst, 0, src.len), src)
    THEN [panic |-> "cbc: invalid buffer overlap", mem |-> mem, iv |-> iv]
    ELSE IF src.len = 0 THEN [panic |-> "", mem |-> mem, iv |-> iv]
    ELSE cbc_decrypter_Loop(k, bs, mem, iv, dst, src)

(***************************************************************************)
(* PKCS #7 padding.                                                        *)
(***************************************************************************)
\* Mutant: nothing is appended to a b of whole blocks.
MutPadPKCS7NoFullBlock(b, n) ==
    LET p == ((n - (Len(b) % n)) % n) % 256
    IN  b \o Repeat(p, p)

\* PadPKCS7(b, n), for 1 <= n <= math.MaxUint8 (it panics otherwise).
PadPKCS7(b, n) ==
    LET p == (n - (Len(b) % n)) % 256     \* byte(n - len(b)%n)
    IN  b \o Repeat(p, p)

\* PadPKCS7(b, n) as called with any n.
PadPKCS7Call(b, n) ==
    IF n < 1 \/ n > MaxUint8 THEN [panic |-> "invalid block size", val |-> <<>>]
    ELSE [panic |-> "", val |-> PadPKCS7(b, n)]

\* Package pkcs7: repeat(b) is bytes.Repeat([]byte{b}, int(b)).
pkcs7_repeat(b) == Repeat(b, b)

\* pkcs7.Pad(b, n); byte(x) keeps the low eight bits of x.
pkcs7_Pad(b, n) ==
    IF n <= 0 THEN [panic |-> "invalid block size", val |-> <<>>]
    ELSE IF Len(b) % n = 0
         THEN [panic |-> "", val |-> b \o pkcs7_repeat(n % 256)]
         ELSE [panic |-> "", val |-> b \o pkcs7_repeat((n - (Len(b) % n)) % 256)]

\* Mutant: nothing is removed.
MutUnpadPKCS7KeepsAll(b) ==
    IF Len(b) = 0 THEN [panic |-> "index out of range", val |-> <<>>]
    ELSE [panic |-> "", val |-> b]

\* UnpadPKCS7(b): b[:len(b)-n] with n the last byte; it panics on an empty b
\* (index out of range) and when n > len(b) (slice bounds out of range).
UnpadPKCS7(b) ==
    IF Len(b) = 0 THEN [panic |-> "index out of range", val |-> <<>>]
    ELSE LET n == b[Len(b)]
         IN  IF n > Len(b) THEN [panic |-> "slice bounds out of range", val |-> <<>>]
             ELSE [panic |-> "", val |-> SubSeq(b, 1, Len(b) - n)]

(***************************************************************************)
(* Encryption oracles.  An oracle is the closure's captured state:         *)
(* [key, iv, prefix, suffix, useECB, bs]; bs is the block size of the      *)
(* cipher behind it (aes.BlockSize in the code).                           *)
(***************************************************************************)
NewECBOrCBCPrefixSuffixOracle(key, iv, prefix, suffix, useECB, bs) ==
    [key |-> key, iv |-> iv, prefix |-> prefix, suffix |-> suffix,
     useECB |-> useECB, bs |-> bs]

\* NewECBSuffixOracle(secret): encrypt(pad(input || secret)) under ECB.
NewECBSuffixOracle(key, secret, bs) ==
    [key |-> key, iv |-> Zeros(bs), prefix |-> <<>>, suffix |-> secret,
     useECB |-> TRUE, bs |-> bs]

\* NewECBPrefixSuffixOracle(secret): encrypt(pad(prefix || input || secret)).
NewECBPrefixSuffixOracle(key, prefix, secret, bs) ==
    [key |-> key, iv |-> Zeros(bs), prefix |-> prefix, suffix |-> secret,
     useECB |-> TRUE, bs |-> bs]

\* The closure body: res := slices.Concat(prefix, input, suffix);
\* res = PadPKCS7(res, mode.BlockSize()); mode.CryptBlocks(res, res).
\* The mode is built anew on every call, from the captured key and iv.
OracleCall(o, input) ==
    LET res   == PadPKCS7(o.prefix \o input \o o.suffix, o.bs)
        whole == Slice(0, Len(res))
    IN  IF o.useECB
        THEN ecbEncrypterCryptBlocks(o.key, o.bs, res, whole, whole).mem
        ELSE cbcEncrypterCryptBlocks(o.key, o.bs, o.iv, res, whole, whole).mem

\* Mutant: the encrypter chains on the closure's own iv slice, which a call
\* leaves at its last ciphertext block.
MutCapturedIVChained(o, input) ==
    LET out == OracleCall(o, input)
    IN  IF o.useECB THEN o.iv ELSE SubSeq(out, Len(out) - o.bs + 1, Len(out))

\* The captured iv after a call: cipher.NewCBCEncrypter copies iv, so the
\* chaining of one call never reaches the closure's iv.
CapturedIVAfterCall(o, input) == o.iv

(***************************************************************************)
(* Probe toolkit.                                                          *)
(***************************************************************************)
\* Mutant: the oracle is asked twice for every byte the input grows by.
RECURSIVE MutFindBlockSizeLoopAsksTwice(_, _, _, _)
MutFindBlockSizeLoopAsksTwice(o, input, start, queries) ==
    LET grown == Append(input, 0)
        n     == Len(OracleCall(o, grown))
    IN  IF n = start
        THEN MutFindBlockSizeLoopAsksTwice(o, grown, start, queries + 2)
        ELSE [bs |-> n - start, queries |-> queries + 2]

\* for n == start { input = append(input, 0); n = len(oracle(input)) }
\* Returns the block size found and the number of oracle queries made.
RECURSIVE FindBlockSizeLoop(_, _, _, _)
FindBlockSizeLoop(o, input, start, queries) ==
    LET grown == Append(input, 0)
        n     == Len(OracleCall(o, grown))
    IN  IF n = start
        THEN FindBlockSizeLoop(o, grown, start, queries + 1)
        ELSE [bs |-> n - start, queries |-> queries + 1]

\* Mutant: the length of the first reply is not taken as the starting length.
MutFindBlockSizeRunNoStart(o) == FindBlockSizeLoop(o, Zeros(1), 0, 1)

FindBlockSizeRun(o) ==
    LET input == Zeros(1)
        start == Len(OracleCall(o, input))
    IN  FindBlockSizeLoop(o, input, start, 1)

FindBlockSize(o) == FindBlockSizeRun(o).bs

\* Mutant: seen holds the previous block only.
RECURSIVE MutIsECBCiphertextLoopAdjacent(_, _, _, _)
MutIsECBCiphertextLoopAdjacent(b, blockSize, i, seen) ==
    IF i < Len(b)
    THEN LET block == SubSeq(b, i + 1, i + blockSize)
         IN  IF block \in seen THEN TRUE
             ELSE MutIsECBCiphertextLoopAdjacent(b, blockSize, i + blockSize, {block})
    ELSE FALSE

\* isECBCiphertext(b, blockSize): a block seen before, scanning from the left.
RECURSIVE isECBCiphertextLoop(_, _, _, _)
isECBCiphertextLoop(b, blockSize, i, seen) ==
    IF i < Len(b)
    THEN LET block == SubSeq(b, i + 1, i + blockSize)
         IN  IF block \in seen THEN TRUE
             ELSE isECBCiphertextLoop(b, blockSize, i + blockSize, seen \cup {block})
    ELSE FALSE

\* Mutant: only the last two blocks are compared.
MutIsECBCiphertextLastTwo(b, blockSize) ==
    /\ Len(b) % blockSize = 0
    /\ Len(b) >= 2 * blockSize
    /\ SubSeq(b, Len(b) - blockSize + 1, Len(b))
          = SubSeq(b, Len(b) - 2 * blockSize + 1, Len(b) - blockSize)

isECBCiphertext(b, blockSize) ==
    IF Len(b) % blockSize # 0 THEN FALSE
    ELSE isECBCiphertextLoop(b, blockSize, 0, {})

\* Mutant: two blocks of input in place of three.
MutIsECBOracleInputTwoBlocks(bs) == Zeros(bs * 2)

\* The input IsECBOracle submits: make([]byte, bs*3).
IsECBOracleInput(bs) == Zeros(bs * 3)

IsECBOracle(o) ==
    LET bs == FindBlockSize(o)
    IN  IF bs = 1 THEN FALSE
        ELSE isECBCiphertext(OracleCall(o, IsECBOracleInput(bs)), bs)

(***************************************************************************)
(* RecoverECBSuffixOracleSecret: one round of the byte-at-a-time recovery. *)
(***************************************************************************)
\* The candidate bytes of the guess loop: for i := range math.MaxUint8.
GuessRange == 0..(MaxUint8 - 1)

\* Mutant: the filler leaves no room for the candidate byte.
MutRoundPrefixFillsBlock(bs, res) == Zeros(bs - (Len(res) % bs))

\* prefix := make([]byte, bs-(len(res)%bs)-1)
RoundPrefix(bs, res) == Zeros(bs - (Len(res) % bs) - 1)

\* Mutant: the block that holds the guess is left out of the comparison.
MutGuessMatchesSkipsLastBlock(o, prefix, res, want, b) ==
    LET input  == prefix \o res \o <<b>>
        output == OracleCall(o, input)
    IN  SubSeq(output, 1, Len(input) - o.bs) = SubSeq(want, 1, Len(input) - o.bs)

\* bytes.Equal(output[:len(input)], want[:len(input)]) for the guess b.
GuessMatches(o, prefix, res, want, b) ==
    LET input  == prefix \o res \o <<b>>
        output == OracleCall(o, input)
    IN  SubSeq(output, 1, Len(input)) = SubSeq(want, 1, Len(input))

\* The guess loop: candidates are tried in increasing order and the first
\* that matches is returned; -1 when the loop ends without a match.
GuessLoop(o, prefix, res, want) ==
    IF \E b \in GuessRange : GuessMatches(o, prefix, res, want, b)
    THEN CHOOSE b \in GuessRange :
             /\ GuessMatches(o, prefix, res, want, b)
             /\ \A c \in GuessRange : c < b => ~GuessMatches(o, prefix, res, want, c)
    ELSE -1

(***************************************************************************)
(* Bounds of the model and the inputs drawn within them.                   *)
(***************************************************************************)
\* Longest hidden prefix and suffix of a probed oracle, in bytes.
MaxPrefixLen == 3
MaxSuffixLen == 2
\* Calls of FindBlockSize, and of IsECBOracle, made on one oracle.
MaxProbes == 2
\* Direct calls made on one oracle between the probes.
MaxCalls == 2

\* Longest secret of an attacked oracle, in bytes.
MaxSecretLen == 3

\* Longest message handed to a mode engine, in blocks.
MaxBlocks == 3

\* Seeds of the byte strings drawn for prefixes, suffixes, ivs and messages:
\* seed 0 gives zero bytes, seed 1 bytes that differ from each other.
Seeds == {0, 1}

\* The byte values secrets are made of: the filler byte, the first padding
\* byte and the largest byte.
SecretBytes == {0, 1, MaxUint8}

RECURSIVE SeqsUpTo(_, _)
SeqsUpTo(S, n) ==
    IF n = 0 THEN { <<>> }
    ELSE LET shorter == SeqsUpTo(S, n - 1)
         IN  shorter \cup { Append(q, x) : q \in { r \in shorter : Len(r) = n - 1 }, x \in S }

Secrets == SeqsUpTo(SecretBytes, MaxSecretLen)

\* A byte string of length n; seed 0 gives the all-zero string.
Sample(seed, n) == [i \in 1..n |-> (seed * (29 + 11 * i * i + 5 * i)) % 256]

\* The oracles probed: every mode, key, block size, prefix and suffix length.
ProbeOracles ==
    { NewECBOrCBCPrefixSuffixOracle(k, Sample(sd, bs), Sample(sd, pl),
                                    Sample(sd + 1, sl), ecb, bs) :
        k \in Keys, bs \in BlockSizes, pl \in 0..MaxPrefixLen,
        sl \in 0..MaxSuffixLen, sd \in Seeds, ecb \in BOOLEAN }

\* The inputs a caller submits between probes.
ProbeInputs == { Zeros(1), <<7, 0>> }

VARIABLES
    oracle,     \* the oracle instance under attack: its captured state
    replies,    \* the <<input, ciphertext>> pairs of the direct calls made
    asked,      \* the number of direct calls made
    sizes,      \* the results of the FindBlockSize calls made, in order
    verdicts,   \* the results of the IsECBOracle calls made, in order
    pc,         \* where RecoverECBSuffixOracleSecret stands
    bsFound,    \* its bs
    res,        \* its res: the bytes recovered so far
    rounds,     \* the rounds of its outer loop that ended with a match
    queries,    \* the oracle calls its rounds have made (reference and guesses)
    result,     \* what it returned, or how it panicked
    prefixLen,  \* the prefix length the recovery with prefix works from
    engine,     \* the mode engine under test
    ekey,       \* the key of its cipher.Block
    ebs,        \* the block size of its cipher.Block
    mem,        \* memory: the caller's buffers and the engine's clone
    ivref,      \* the CBC decrypter's iv field (a slice)
    plain,      \* the message the buffers were filled from
    civ,        \* the iv the message was encrypted under (CBC)
    inplace,    \* whether the caller passes dst = src
    stage,      \* "enc", "dec" or "done"
    pos,        \* the bytes of the message handed over so far in this stage
    pieces,     \* the block counts of the CryptBlocks calls made, in order
    call,       \* the arbitrary CryptBlocks call made: its arguments, its
                \* outcome, and the memory and iv field it started from
    pad,        \* the arguments handed to the padding functions and what
                \* each of them returned
    detect      \* the arguments handed to isECBCiphertext and what it returned

probeVars == <<replies, asked, sizes, verdicts>>
attackVars == <<pc, bsFound, res, rounds, queries, result, prefixLen>>
modeVars == <<engine, ekey, ebs, mem, ivref, plain, civ, inplace, stage, pos, pieces>>
vars == <<oracle, replies, asked, sizes, verdicts,
          pc, bsFound, res, rounds, queries, result, prefixLen,
          engine, ekey, ebs, mem, ivref, plain, civ, inplace, stage, pos, pieces,
          call, pad, detect>>

NoResult == [panic |-> "", val |-> <<>>]

NoCall == [dst |-> Slice(0, 0), src |-> Slice(0, 0), panic |-> "",
           mem |-> <<>>, iv |-> Slice(0, 0)]

ModeIdle ==
    /\ engine = "none" /\ ekey = 0 /\ ebs = 0 /\ mem = <<>>
    /\ ivref = Slice(0, 0) /\ plain = <<>> /\ civ = <<>>
    /\ inplace = FALSE /\ stage = "idle" /\ pos = 0 /\ pieces = <<>>
    /\ call = NoCall

AttackIdle ==
    /\ pc = "idle" /\ bsFound = 0 /\ res = <<>>
    /\ rounds = 0 /\ queries = 0 /\ result = NoResult /\ prefixLen = 0

ProbeIdle == replies = {} /\ asked = 0 /\ sizes = <<>> /\ verdicts = <<>>

NotCalled == [called |-> FALSE, panic |-> "", val |-> <<>>]
NoPad == [b |-> <<>>, n |-> 0, cryptopals |-> NotCalled, pkcs7 |-> NotCalled]
PadIdle == pad = NoPad

NoDetect == [b |-> <<>>, blockSize |-> 0, called |-> FALSE, val |-> FALSE]
DetectIdle == detect = NoDetect

(***************************************************************************)
(* The probes, called in any order and any number of times on one oracle.  *)
(***************************************************************************)
InitProbe ==
    /\ oracle \in ProbeOracles
    /\ ProbeIdle
    /\ DetectIdle
    /\ PadIdle
    /\ AttackIdle
    /\ ModeIdle

\* oracle(input), called directly.
Query(input) ==
    /\ asked < MaxCalls
    /\ asked' = asked + 1
    /\ replies' = replies \cup { <<input, OracleCall(oracle, input)>> }
    /\ oracle' = [oracle EXCEPT !.iv = CapturedIVAfterCall(oracle, input)]
    /\ UNCHANGED <<sizes, verdicts>>
    /\ UNCHANGED <<attackVars, modeVars, call, pad, detect>>

CallFindBlockSize ==
    /\ Len(sizes) < MaxProbes
    /\ sizes' = Append(sizes, FindBlockSizeRun(oracle))
    /\ UNCHANGED <<oracle, replies, asked, verdicts>>
    /\ UNCHANGED <<attackVars, modeVars, call, pad, detect>>

CallIsECBOracle ==
    /\ Len(verdicts) < MaxProbes
    /\ verdicts' = Append(verdicts, IsECBOracle(oracle))
    /\ UNCHANGED <<oracle, replies, asked, sizes>>
    /\ UNCHANGED <<attackVars, modeVars, call, pad, detect>>

NextProbe ==
    \/ \E input \in ProbeInputs : Query(input)
    \/ CallFindBlockSize
    \/ CallIsECBOracle

SpecProbe == InitProbe /\ [][NextProbe]_vars

(***************************************************************************)
(* Claims about the probe toolkit and the oracles (SpecProbe).             *)
(***************************************************************************)
\* C4: FindBlockSize returns the block size of the cipher behind the oracle,
\* for every mode, every prefix length and every suffix length (0 included).
C4_FindBlockSizeIsBlockSize ==
    \A i \in 1..Len(sizes) : sizes[i].bs = oracle.bs

C4_Witness ==
    /\ Len(sizes) > 0
    /\ oracle.prefix = <<>> /\ oracle.suffix = <<>>
    /\ oracle.bs = MaxBS

\* C5: IsECBOracle returns true for every oracle that ECB-encrypts
\* pad(prefix || input || suffix).
C5_ECBOracleDetected ==
    \A i \in 1..Len(verdicts) : oracle.useECB => verdicts[i] = TRUE

C5_Witness ==
    /\ Len(verdicts) > 0 /\ oracle.useECB
    /\ Len(oracle.prefix) % oracle.bs # 0
    /\ oracle.prefix # Zeros(Len(oracle.prefix))

\* The blocks the cipher is fed when a CBC oracle encrypts input:
\* x_i XOR c_{i-1}, with the iv for c_{-1}, read off plaintext and ciphertext.
CBCChainInputs(o, input) ==
    LET pt == PadPKCS7(o.prefix \o input \o o.suffix, o.bs)
        ct == OracleCall(o, input)
        blk(s, i) == SubSeq(s, (i - 1) * o.bs + 1, i * o.bs)
    IN  [i \in 1..(Len(pt) \div o.bs) |->
            XORBytes(blk(pt, i), IF i = 1 THEN o.iv ELSE blk(ct, i - 1))]

\* C6, as stated: IsECBOracle returns false for every oracle that CBC-encrypts.
C6_CBCOracleNeverDetected ==
    \A i \in 1..Len(verdicts) : ~oracle.useECB => verdicts[i] = FALSE

\* C6, amended: for a CBC oracle IsECBOracle returns false exactly when the
\* blocks x_i XOR c_{i-1} fed to the cipher for the 3*bs-byte zero input are
\* pairwise distinct; when two of them coincide it returns true.
C6_CBCOracleDetectedIffChainCollision ==
    \A i \in 1..Len(verdicts) :
        ~oracle.useECB =>
            LET u == CBCChainInputs(oracle, IsECBOracleInput(oracle.bs))
            IN  verdicts[i] = (\E a, b \in 1..Len(u) : a < b /\ u[a] = u[b])

C6_Witness ==
    /\ Len(verdicts) > 0 /\ ~oracle.useECB
    /\ verdicts[1] = FALSE
    /\ oracle.prefix # <<>> /\ oracle.suffix # <<>>

InitAttack ==
    /\ \E k \in Keys, bs \in BlockSizes, secret \in Secrets :
           oracle = NewECBSuffixOracle(k, secret, bs)
    /\ ProbeIdle
    /\ DetectIdle
    /\ PadIdle
    /\ ModeIdle
    /\ pc = "start" /\ bsFound = 0 /\ res = <<>>
    /\ rounds = 0 /\ queries = 0 /\ result = NoResult /\ prefixLen = 0

\* Mutant: the loop is entered whatever IsECBOracle says.
MutRecoverStartSkipsCheck ==
    /\ pc = "start"
    /\ bsFound' = FindBlockSize(oracle)
    /\ pc' = "loop" /\ result' = result
    /\ UNCHANGED <<oracle, res, rounds, queries, prefixLen>>
    /\ UNCHANGED <<probeVars, modeVars, call, pad, detect>>

\* bs := FindBlockSize(oracle); if !IsECBOracle(oracle) { panic("not ecb") }
RecoverStart ==
    /\ pc = "start"
    /\ bsFound' = FindBlockSize(oracle)
    /\ IF IsECBOracle(oracle)
       THEN pc' = "loop" /\ result' = result
       ELSE pc' = "panic" /\ result' = [panic |-> "not ecb", val |-> <<>>]
    /\ UNCHANGED <<oracle, res, rounds, queries, prefixLen>>
    /\ UNCHANGED <<probeVars, modeVars, call, pad, detect>>

\* One round: the reference query, the guess loop, and either the append of
\* the matching byte or the break, UnpadPKCS7(res) and the return.
RecoverRound ==
    /\ pc = "loop"
    /\ Len(res) <= MaxSecretLen + MaxBS
    /\ LET prefix == RoundPrefix(bsFound, res)
           want   == OracleCall(oracle, prefix)
           b      == GuessLoop(oracle, prefix, res, want)
       IN  IF b >= 0
           THEN /\ res' = Append(res, b)
                /\ rounds' = rounds + 1
                /\ queries' = queries + 1 + (b + 1)
                /\ UNCHANGED <<pc, result>>
           ELSE /\ result' = UnpadPKCS7(res)
                /\ pc' = IF result'.panic = "" THEN "done" ELSE "panic"
                /\ queries' = queries + 1 + Cardinality(GuessRange)
                /\ UNCHANGED <<res, rounds>>
    /\ UNCHANGED <<oracle, bsFound, prefixLen>>
    /\ UNCHANGED <<probeVars, modeVars, call, pad, detect>>

NextAttack == RecoverStart \/ RecoverRound

SpecAttack == InitAttack /\ [][NextAttack]_vars

\* C1: RecoverECBSuffixOracleSecret returns exactly the secret, for every
\* secret (any length, any byte values 0..255).
C1_RecoversSecret ==
    pc \in {"done", "panic"} => (result.panic = "" /\ result.val = oracle.suffix)

\* C1 holds of the secrets without the byte 255.
C1_RecoversSecretWithout255 ==
    (pc \in {"done", "panic"} /\ \A i \in 1..Len(oracle.suffix) : oracle.suffix[i] # MaxUint8)
        => (result.panic = "" /\ result.val = oracle.suffix)

(***************************************************************************)
(* Recovery past a hidden prefix: DiscoverPrefixLength and                 *)
(* RecoverSecretWithPrefix, after sections 4.2 and 4.3 of the              *)
(* specification.  What the text leaves open, the reference block, the     *)
(* choice among equally frequent blocks and the order of the search over   *)
(* the padding lengths, is left open here.                                 *)
(***************************************************************************)
\* The reference blocks picked from: distinct bytes, and one byte repeated.
RefBlocks(bs) == { [i \in 1..bs |-> 64 + i], Repeat(97, bs) }

\* How many times the reference block is repeated in a probe.
Repetitions == 2 * MaxBlocks

RepeatBlock(ref, n) == [i \in 1..(n * Len(ref)) |-> ref[((i - 1) % Len(ref)) + 1]]

\* The block-aligned offsets of a ciphertext and the block at one of them.
BlockOffsets(ct, bs) == { off \in 0..(Len(ct) - bs) : off % bs = 0 }
BlockAt(ct, bs, off) == SubSeq(ct, off + 1, off + bs)

BlockCount(ct, bs, blk) ==
    Cardinality({ off \in BlockOffsets(ct, bs) : BlockAt(ct, bs, off) = blk })

\* The most frequent block values of a ciphertext (more than one on a tie).
MostFrequentBlocks(ct, bs) ==
    { BlockAt(ct, bs, off) : off \in
        { o1 \in BlockOffsets(ct, bs) :
            \A o2 \in BlockOffsets(ct, bs) :
                BlockCount(ct, bs, BlockAt(ct, bs, o2))
                    <= BlockCount(ct, bs, BlockAt(ct, bs, o1)) } }

\* The magic blocks: the most frequent blocks of oracle(ref repeated).
MagicBlocks(o, bs, ref) ==
    MostFrequentBlocks(OracleCall(o, RepeatBlock(ref, Repetitions)), bs)

\* The byte offset at which the magic block first appears, -1 if nowhere.
FirstOffset(ct, bs, magic) ==
    LET at == { off \in BlockOffsets(ct, bs) : BlockAt(ct, bs, off) = magic }
    IN  IF at = {} THEN -1
        ELSE CHOOSE off \in at : \A other \in at : off <= other

\* The probe for padding length d: d extra bytes of the reference block ahead
\* of the full repetition.
PaddedProbe(ref, d) == SubSeq(ref, 1, d) \o RepeatBlock(ref, Repetitions)

\* The padding lengths whose probe shows the magic block.
MagicPaddings(o, bs, ref, magic) ==
    { d \in 0..(bs - 1) :
        FirstOffset(OracleCall(o, PaddedProbe(ref, d)), bs, magic) >= 0 }

\* DiscoverPrefixLength(oracle, blockSize) for a reference block, a magic
\* block and the padding length d the search stops at:
\* firstOffset - paddingLength.
DiscoverPrefixLength(o, bs, ref, magic, d) ==
    FirstOffset(OracleCall(o, PaddedProbe(ref, d)), bs, magic) - d

\* The filler of a round: bs - ((prefixLen + len(recovered)) mod bs) - 1 bytes.
Filler(bs, plen, recovered) == Zeros(bs - ((plen + Len(recovered)) % bs) - 1)

\* The comparison of a round for candidate b: the first
\* prefixLen + len(filler) + len(recovered) + 1 bytes of the reply against
\* the same of want.
CandidateMatches(o, plen, filler, recovered, want, b) ==
    LET output == OracleCall(o, filler \o recovered \o <<b>>)
        n      == plen + Len(filler) + Len(recovered) + 1
    IN  /\ n <= Len(output) /\ n <= Len(want)
        /\ SubSeq(output, 1, n) = SubSeq(want, 1, n)

\* The guess loop over the candidates 0..255: the first that matches, -1
\* when none does.
CandidateLoop(o, plen, filler, recovered, want) ==
    IF \E b \in Byte : CandidateMatches(o, plen, filler, recovered, want, b)
    THEN CHOOSE b \in Byte :
             /\ CandidateMatches(o, plen, filler, recovered, want, b)
             /\ \A c \in Byte : c < b => ~CandidateMatches(o, plen, filler, recovered, want, c)
    ELSE -1

\* The hidden prefixes of the oracles attacked: 1..MaxPrefixLen bytes.
HiddenPrefixes == { Sample(1, n) : n \in 1..MaxPrefixLen }

InitPrefix ==
    /\ \E k \in Keys, bs \in BlockSizes, prefix \in HiddenPrefixes, secret \in Secrets :
           oracle = NewECBPrefixSuffixOracle(k, prefix, secret, bs)
    /\ ProbeIdle
    /\ DetectIdle
    /\ PadIdle
    /\ ModeIdle
    /\ pc = "start" /\ bsFound = 0 /\ res = <<>>
    /\ rounds = 0 /\ queries = 0 /\ result = NoResult /\ prefixLen = -1

\* The probes before the rounds: the block size, and the check for ECB, once.
PrefixRecoverStart ==
    /\ pc = "start"
    /\ bsFound' = FindBlockSize(oracle)
    /\ IF IsECBOracle(oracle)
       THEN pc' = "discover" /\ result' = result
       ELSE pc' = "failed" /\ result' = [panic |-> "not ecb", val |-> <<>>]
    /\ UNCHANGED <<oracle, res, rounds, queries, prefixLen>>
    /\ UNCHANGED <<probeVars, modeVars, call, pad, detect>>

\* DiscoverPrefixLength: it fails with MagicBlockNotFound when no padding
\* length shows the magic block.
PrefixDiscover ==
    /\ pc = "discover"
    /\ \E ref \in RefBlocks(bsFound) :
         \E magic \in MagicBlocks(oracle, bsFound, ref) :
           LET hits == MagicPaddings(oracle, bsFound, ref, magic)
           IN  IF hits = {}
               THEN /\ pc' = "failed"
                    /\ result' = [panic |-> "MagicBlockNotFound", val |-> <<>>]
                    /\ UNCHANGED prefixLen
               ELSE /\ \E d \in hits :
                          prefixLen' = DiscoverPrefixLength(oracle, bsFound, ref, magic, d)
                    /\ pc' = "loop"
                    /\ UNCHANGED result
    /\ UNCHANGED <<oracle, bsFound, res, rounds, queries>>
    /\ UNCHANGED <<probeVars, modeVars, call, pad, detect>>

\* One round of the recovery with prefix: alignment, reference capture, guess
\* loop, and either the append or the termination and the strip of the padding.
PrefixRecoverRound ==
    /\ pc = "loop" /\ prefixLen >= 0
    /\ Len(res) <= MaxSecretLen + MaxBS
    /\ LET filler == Filler(bsFound, prefixLen, res)
           want   == OracleCall(oracle, filler)
           b      == CandidateLoop(oracle, prefixLen, filler, res, want)
       IN  IF b >= 0
           THEN /\ res' = Append(res, b)
                /\ rounds' = rounds + 1
                /\ queries' = queries + 1 + (b + 1)
                /\ UNCHANGED <<pc, result>>
           ELSE /\ result' = UnpadPKCS7(res)
                /\ pc' = IF result'.panic = "" THEN "done" ELSE "failed"
                /\ queries' = queries + 1 + Cardinality(Byte)
                /\ UNCHANGED <<res, rounds>>
    /\ UNCHANGED <<oracle, bsFound, prefixLen>>
    /\ UNCHANGED <<probeVars, modeVars, call, pad, detect>>

NextPrefix == PrefixRecoverStart \/ PrefixDiscover \/ PrefixRecoverRound

SpecPrefix == InitPrefix /\ [][NextPrefix]_vars

\* C3: DiscoverPrefixLength returns the true prefix length, as
\* firstOffset - paddingLength.
C3_DiscoversPrefixLength ==
    pc \in {"loop", "done"} => prefixLen = Len(oracle.prefix)

\* C2: RecoverSecretWithPrefix returns exactly the secret, for every secret
\* and every hidden prefix of 1 byte or more.
C2_RecoversSecretWithPrefix ==
    pc \in {"done", "failed"} => (result.panic = "" /\ result.val = oracle.suffix)

(***************************************************************************)
(* The mode engines at work on a caller's buffers.  Memory holds, in       *)
(* order: the caller's iv buffer, the buffers A, B and C of the length of  *)
(* the message, and the block the cryptopals cbcDecrypter clones into.     *)
(* An ECB engine pair encrypts A (into B, or in place) and decrypts the    *)
(* ciphertext (into C, or in place); a CBC decrypter decrypts the          *)
(* ciphertext in A (into B, or in place).  The message is handed over in   *)
(* consecutive pieces of whole blocks, one CryptBlocks call per piece.     *)
(***************************************************************************)
Engines == {"ecb", "ecbpkg", "cbc", "cbcpkg"}

MsgLen == Len(plain)
IVBuf  == Slice(0, ebs)
BufA   == Slice(ebs, MsgLen)
BufB   == Slice(ebs + MsgLen, MsgLen)
BufC   == Slice(ebs + 2 * MsgLen, MsgLen)
OwnBuf == Slice(ebs + 3 * MsgLen, ebs)

\* The CBC encryption of message x under key k and iv, by cipher.NewCBCEncrypter.
CBCEncryption(k, bs, iv, x) ==
    cbcEncrypterCryptBlocks(k, bs, iv, x, Slice(0, Len(x)), Slice(0, Len(x))).mem

\* Where the current stage reads and writes.
SrcBuf == IF stage = "dec" /\ engine \in {"ecb", "ecbpkg"} /\ ~inplace THEN BufB ELSE BufA
DstBuf ==
    IF inplace THEN SrcBuf
    ELSE IF stage = "dec" /\ engine \in {"ecb", "ecbpkg"} THEN BufC ELSE BufB

\* Memory as the caller set it up: the iv, the message (ECB) or its CBC
\* encryption (CBC) in A, and zeroed B, C and clone.
InitialMem ==
    civ \o (IF engine \in {"ecb", "ecbpkg"} THEN plain
            ELSE CBCEncryption(ekey, ebs, civ, plain))
        \o Zeros(2 * Len(plain)) \o Zeros(ebs)

InitMode ==
    /\ oracle = NewECBSuffixOracle(0, <<>>, 2)
    /\ ProbeIdle
    /\ DetectIdle
    /\ PadIdle
    /\ AttackIdle
    /\ engine \in Engines
    /\ ekey \in Keys
    /\ ebs \in BlockSizes
    /\ inplace \in BOOLEAN
    /\ \E n \in 1..MaxBlocks, sd \in Seeds :
          /\ plain = Sample(sd, n * ebs)
          /\ civ = Sample(sd + 1, ebs)
    /\ stage = IF engine \in {"ecb", "ecbpkg"} THEN "enc" ELSE "dec"
    /\ mem = InitialMem
    /\ ivref = NewCBCDecrypter(ebs, Slice(0, ebs)).iv
    /\ pos = 0
    /\ pieces = <<>>
    /\ call = NoCall

\* The piece of n blocks handed over next.
PieceOf(buf, n) == Sub(buf, pos, pos + n * ebs)

\* After a piece: on to the next piece or, at the end of the message, to the
\* next stage.
Advance(n) ==
    /\ pieces' = Append(pieces, n)
    /\ IF pos + n * ebs < MsgLen
       THEN pos' = pos + n * ebs /\ stage' = stage
       ELSE pos' = 0 /\ stage' = IF stage = "enc" THEN "dec" ELSE "done"

FitsMessage(n) == n \in 1..MaxBlocks /\ pos + n * ebs <= MsgLen

\* ecbEncrypter.CryptBlocks (package cryptopals) on the next n blocks
ECBEncrypt(n) ==
    /\ engine = "ecb" /\ stage = "enc" /\ FitsMessage(n)
    /\ mem' = ecbEncrypterCryptBlocks(ekey, ebs, mem, PieceOf(DstBuf, n), PieceOf(SrcBuf, n)).mem
    /\ Advance(n)
    /\ UNCHANGED <<engine, ekey, ebs, ivref, plain, civ, inplace>>
    /\ UNCHANGED <<oracle, probeVars, attackVars, call, pad, detect>>

\* ecbDecrypter.CryptBlocks (package cryptopals) on the next n blocks
ECBDecrypt(n) ==
    /\ engine = "ecb" /\ stage = "dec" /\ FitsMessage(n)
    /\ mem' = ecbDecrypterCryptBlocks(ekey, ebs, mem, PieceOf(DstBuf, n), PieceOf(SrcBuf, n)).mem
    /\ Advance(n)
    /\ UNCHANGED <<engine, ekey, ebs, ivref, plain, civ, inplace>>
    /\ UNCHANGED <<oracle, probeVars, attackVars, call, pad, detect>>

\* encrypter.CryptBlocks (package ecb) on the next n blocks
PkgECBEncrypt(n) ==
    /\ engine = "ecbpkg" /\ stage = "enc" /\ FitsMessage(n)
    /\ mem' = ecb_encrypter_CryptBlocks(ekey, ebs, mem, PieceOf(DstBuf, n), PieceOf(SrcBuf, n)).mem
    /\ Advance(n)
    /\ UNCHANGED <<engine, ekey, ebs, ivref, plain, civ, inplace>>
    /\ UNCHANGED <<oracle, probeVars, attackVars, call, pad, detect>>

\* decrypter.CryptBlocks (package ecb) on the next n blocks
PkgECBDecrypt(n) ==
    /\ engine = "ecbpkg" /\ stage = "dec" /\ FitsMessage(n)
    /\ mem' = ecb_decrypter_CryptBlocks(ekey, ebs, mem, PieceOf(DstBuf, n), PieceOf(SrcBuf, n)).mem
    /\ Advance(n)
    /\ UNCHANGED <<engine, ekey, ebs, ivref, plain, civ, inplace>>
    /\ UNCHANGED <<oracle, probeVars, attackVars, call, pad, detect>>

\* cbcDecrypter.CryptBlocks (package cryptopals) on the next n blocks
CBCDecrypt(n) ==
    /\ engine = "cbc" /\ stage = "dec" /\ FitsMessage(n)
    /\ LET r == cbcDecrypterCryptBlocks(ekey, ebs, mem, ivref, OwnBuf,
                    PieceOf(DstBuf, n), PieceOf(SrcBuf, n))
       IN  mem' = r.mem /\ ivref' = r.iv
    /\ Advance(n)
    /\ UNCHANGED <<engine, ekey, ebs, plain, civ, inplace>>
    /\ UNCHANGED <<oracle, probeVars, attackVars, call, pad, detect>>

\* decrypter.CryptBlocks (package cbc) on the next n blocks
PkgCBCDecrypt(n) ==
    /\ engine = "cbcpkg" /\ stage = "dec" /\ FitsMessage(n)
    /\ LET r == cbc_decrypter_CryptBlocks(ekey, ebs, mem, ivref,
                    PieceOf(DstBuf, n), PieceOf(SrcBuf, n))
       IN  mem' = r.mem /\ ivref' = r.iv
    /\ Advance(n)
    /\ UNCHANGED <<engine, ekey, ebs, plain, civ, inplace>>
    /\ UNCHANGED <<oracle, probeVars, attackVars, call, pad, detect>>

NextMode ==
    \E n \in 1..MaxBlocks :
        \/ ECBEncrypt(n)
        \/ ECBDecrypt(n)
        \/ PkgECBEncrypt(n)
        \/ PkgECBDecrypt(n)
        \/ CBCDecrypt(n)
        \/ PkgCBCDecrypt(n)

SpecMode == InitMode /\ [][NextMode]_vars

(***************************************************************************)
(* Properties of the mode engines.                                         *)
(***************************************************************************)
\* Block i (from 0) of a byte string
Blk(b, i) == SubSeq(b, i * ebs + 1, (i + 1) * ebs)

NBlocks == MsgLen \div ebs
\* Blocks the current stage has processed
Processed == pos \div ebs

IsECBEngine == engine \in {"ecb", "ecbpkg"}
IsCBCEngine == engine \in {"cbc", "cbcpkg"}

\* Where the ECB ciphertext and the decrypted text lie
CtBuf == IF inplace THEN BufA ELSE BufB
PtBuf == IF inplace THEN BufA ELSE BufC

\* C8: ECB decryption undoes ECB encryption, and each output block is the
\* cipher applied to the input block at the same position, whatever the
\* pieces the message was handed over in: after any number of CryptBlocks
\* calls every ciphertext block produced is Encrypt(x_i), every block
\* decrypted is Decrypt(Encrypt(x_i)) = x_i, and at the end the decrypted
\* message is x.
C8_ECBRoundTripBlockwise ==
    IsECBEngine =>
        /\ stage = "enc" =>
              \A i \in 0..(Processed - 1) :
                  Blk(Read(mem, CtBuf), i) = BlockEncrypt(ekey, Blk(plain, i))
        /\ stage = "dec" =>
              /\ \A i \in Processed..(NBlocks - 1) :
                    Blk(Read(mem, CtBuf), i) = BlockEncrypt(ekey, Blk(plain, i))
              /\ \A i \in 0..(Processed - 1) :
                    /\ Blk(Read(mem, PtBuf), i)
                          = BlockDecrypt(ekey, BlockEncrypt(ekey, Blk(plain, i)))
                    /\ Blk(Read(mem, PtBuf), i) = Blk(plain, i)
        /\ stage = "done" => Read(mem, PtBuf) = plain

\* A message of MaxBlocks blocks, encrypted and decrypted piece by piece in
\* more than one call each, whose ciphertext differs from it.
C8_Witness ==
    /\ IsECBEngine /\ stage = "done"
    /\ NBlocks = MaxBlocks /\ Len(pieces) >= 4
    /\ Read(mem, PtBuf) = plain
    /\ \E i \in 0..(NBlocks - 1) : BlockEncrypt(ekey, Blk(plain, i)) # Blk(plain, i)

\* The CBC encryption of the message, which the caller put into A
CBCCiphertext == CBCEncryption(ekey, ebs, civ, plain)

\* c_{i-1}: the previous ciphertext block, the iv for the first block
PrevCipherBlock(i) == IF i = 0 THEN civ ELSE Blk(CBCCiphertext, i - 1)

CBCDst == IF inplace THEN BufA ELSE BufB

\* C9: the cryptopals cbcDecrypter applied to the CBC encryption of x under
\* the same iv returns x: every block decrypted so far is
\* Decrypt(c_i) XOR c_{i-1} (the iv for the first block) and equals x_i, and
\* at the end the decrypted message is x.
C9_CBCRoundTrip ==
    engine = "cbc" =>
        /\ \A i \in 0..((IF stage = "done" THEN NBlocks ELSE Processed) - 1) :
              /\ Blk(Read(mem, CBCDst), i)
                    = XORBytes(BlockDecrypt(ekey, Blk(CBCCiphertext, i)), PrevCipherBlock(i))
              /\ Blk(Read(mem, CBCDst), i) = Blk(plain, i)
        /\ stage = "done" => Read(mem, CBCDst) = plain

\* A message of several blocks decrypted by the cbcDecrypter, in place, where
\* neither the iv nor the ciphertext is trivial.
C9_Witness ==
    /\ engine = "cbc" /\ stage = "done" /\ inplace
    /\ NBlocks = MaxBlocks
    /\ civ # Zeros(ebs)
    /\ CBCCiphertext # plain
    /\ Read(mem, CBCDst) = plain

\* The memory after one CryptBlocks call over the whole ciphertext, from the
\* memory as the caller set it up and a decrypter fresh from its constructor.
WholeCall ==
    IF engine = "cbc"
    THEN cbcDecrypterCryptBlocks(ekey, ebs, InitialMem,
             NewCBCDecrypter(ebs, IVBuf).iv, OwnBuf, CBCDst, BufA).mem
    ELSE cbc_decrypter_CryptBlocks(ekey, ebs, InitialMem, IVBuf, CBCDst, BufA).mem

\* C10: for both CBC decrypters, what successive CryptBlocks calls over
\* consecutive pieces of the ciphertext have written to dst is what a single
\* call over the whole ciphertext, from the same iv and with the same
\* buffers, writes there: the blocks done so far agree, and at the end the
\* whole output agrees.
C10_PiecewiseEqualsWhole ==
    IsCBCEngine =>
        /\ stage = "dec" =>
              SubSeq(Read(mem, CBCDst), 1, pos) = SubSeq(Read(WholeCall, CBCDst), 1, pos)
        /\ stage = "done" => Read(mem, CBCDst) = Read(WholeCall, CBCDst)

\* A ciphertext of MaxBlocks blocks decrypted in a growing sequence of pieces
\* (one block, then the rest) into a separate buffer.
C10_Witness ==
    /\ IsCBCEngine /\ stage = "done" /\ ~inplace
    /\ NBlocks = MaxBlocks /\ Len(pieces) >= 2 /\ pieces[1] < pieces[2]
    /\ Read(mem, CBCDst) = plain

\* The blocks handed over by the CryptBlocks calls made so far.
RECURSIVE SumSeq(_)
SumSeq(q) == IF q = <<>> THEN 0 ELSE q[1] + SumSeq(Tail(q))

BlocksDone == SumSeq(pieces)

\* C11: after every CryptBlocks call with a non-empty src on the cryptopals
\* cbcDecrypter, the chaining state c.iv holds the last ciphertext block of
\* that call's src as it was on entry, also when dst and src are the same
\* buffer (where that block has been overwritten with plaintext by then).
C11_ChainingStateIsLastCipherBlock ==
    (engine = "cbc" /\ pieces # <<>>) =>
        Read(mem, ivref) = Blk(CBCCiphertext, BlocksDone - 1)

\* In-place calls, more than one, after which the last block of the buffer
\* holds plaintext that differs from the ciphertext block kept as the state.
C11_Witness ==
    /\ engine = "cbc" /\ inplace /\ Len(pieces) >= 2 /\ stage = "done"
    /\ Read(mem, ivref) = Blk(CBCCiphertext, NBlocks - 1)
    /\ Blk(Read(mem, BufA), NBlocks - 1) = Blk(plain, NBlocks - 1)
    /\ Blk(plain, NBlocks - 1) # Blk(CBCCiphertext, NBlocks - 1)

\* One CryptBlocks(out, buf) call of the cbc package decrypter over the whole
\* ciphertext in A, with the disjoint B for out, from the memory as the
\* caller set it up.
PkgDisjointCall == cbc_decrypter_CryptBlocks(ekey, ebs, InitialMem, IVBuf, BufB, BufA)

\* C12: for the cbc package decrypter, one call CryptBlocks(buf, buf) over a
\* ciphertext of one or more blocks leaves in buf the plaintext that
\* CryptBlocks(out, buf) with a disjoint out leaves in out, and leaves the
\* same chaining state (the last ciphertext block of the call).
C12_PkgInPlaceEqualsDisjoint ==
    (engine = "cbcpkg" /\ inplace /\ stage = "done" /\ Len(pieces) = 1) =>
        /\ Read(mem, BufA) = Read(PkgDisjointCall.mem, BufB)
        /\ Read(mem, ivref) = Read(PkgDisjointCall.mem, PkgDisjointCall.iv)
        /\ Read(mem, ivref) = Blk(CBCCiphertext, NBlocks - 1)

(***************************************************************************)
(* One CryptBlocks call with arbitrary arguments.  Memory holds the        *)
(* caller's iv buffer, an arena of three blocks and the block the          *)
(* cryptopals cbcDecrypter clones into.  The caller passes any two slices  *)
(* of the arena as dst and src: of any length, overlapping or not.  After  *)
(* the call has returned, or has panicked and the caller has recovered,    *)
(* the caller makes one more call on the same engine, from the first block *)
(* of the arena into the second.                                           *)
(***************************************************************************)
CallEngines == {"ecbEncrypter", "ecbDecrypter", "ecb.encrypter", "ecb.decrypter",
                "cbcDecrypter", "cbc.decrypter"}

ArenaLen == 3 * ebs
Arena == Slice(ebs, ArenaLen)
CloneBuf == Slice(ebs + ArenaLen, ebs)
ArenaSlices == UNION { { Sub(Arena, a, b) : b \in a..ArenaLen } : a \in 0..ArenaLen }

\* The slices the caller chooses the arguments of the arbitrary call from.
CallArgs == IF stage = "fresh" THEN ArenaSlices ELSE {}

\* The outcome of an ECB engine's call, with the iv field no ECB engine has.
WithIV(r, iv) == [panic |-> r.panic, mem |-> r.mem, iv |-> iv]

\* CryptBlocks(dst, src) of engine e.
CryptBlocksOf(e, k, bs, m, iv, dst, src) ==
    CASE e = "ecbEncrypter"  -> WithIV(ecbEncrypterCryptBlocks(k, bs, m, dst, src), iv)
      [] e = "ecbDecrypter"  -> WithIV(ecbDecrypterCryptBlocks(k, bs, m, dst, src), iv)
      [] e = "ecb.encrypter" -> WithIV(ecb_encrypter_CryptBlocks(k, bs, m, dst, src), iv)
      [] e = "ecb.decrypter" -> WithIV(ecb_decrypter_CryptBlocks(k, bs, m, dst, src), iv)
      [] e = "cbcDecrypter"  -> cbcDecrypterCryptBlocks(k, bs, m, iv, CloneBuf, dst, src)
      [] e = "cbc.decrypter" -> cbc_decrypter_CryptBlocks(k, bs, m, iv, dst, src)

InitCall ==
    /\ oracle = NewECBSuffixOracle(0, <<>>, 2)
    /\ ProbeIdle
    /\ DetectIdle
    /\ PadIdle
    /\ AttackIdle
    /\ engine \in CallEngines
    /\ ekey \in Keys
    /\ ebs \in BlockSizes
    /\ mem = Sample(2, ebs) \o Sample(1, ArenaLen) \o Zeros(ebs)
    /\ ivref = NewCBCDecrypter(ebs, Slice(0, ebs)).iv
    /\ plain = <<>> /\ civ = <<>> /\ inplace = FALSE
    /\ stage = "fresh" /\ pos = 0 /\ pieces = <<>>
    /\ call = NoCall

\* The call is made: r is its outcome.
MakeCall(r, dst, src) ==
    /\ stage = "fresh"
    /\ mem' = r.mem
    /\ ivref' = r.iv
    /\ call' = [dst |-> dst, src |-> src, panic |-> r.panic, mem |-> mem, iv |-> ivref]
    /\ stage' = "called"
    /\ UNCHANGED <<engine, ekey, ebs, plain, civ, inplace, pos, pieces>>
    /\ UNCHANGED <<oracle, probeVars, attackVars, pad, detect>>

\* ecbEncrypter.CryptBlocks(dst, src) (package cryptopals)
CallECBEncrypter(dst, src) ==
    /\ engine = "ecbEncrypter"
    /\ MakeCall(CryptBlocksOf("ecbEncrypter", ekey, ebs, mem, ivref, dst, src), dst, src)

\* ecbDecrypter.CryptBlocks(dst, src) (package cryptopals)
CallECBDecrypter(dst, src) ==
    /\ engine = "ecbDecrypter"
    /\ MakeCall(CryptBlocksOf("ecbDecrypter", ekey, ebs, mem, ivref, dst, src), dst, src)

\* encrypter.CryptBlocks(dst, src) (package ecb)
CallPkgECBEncrypter(dst, src) ==
    /\ engine = "ecb.encrypter"
    /\ MakeCall(CryptBlocksOf("ecb.encrypter", ekey, ebs, mem, ivref, dst, src), dst, src)

\* decrypter.CryptBlocks(dst, src) (package ecb)
CallPkgECBDecrypter(dst, src) ==
    /\ engine = "ecb.decrypter"
    /\ MakeCall(CryptBlocksOf("ecb.decrypter", ekey, ebs, mem, ivref, dst, src), dst, src)

\* cbcDecrypter.CryptBlocks(dst, src) (package cryptopals)
CallCBCDecrypter(dst, src) ==
    /\ engine = "cbcDecrypter"
    /\ MakeCall(CryptBlocksOf("cbcDecrypter", ekey, ebs, mem, ivref, dst, src), dst, src)

\* decrypter.CryptBlocks(dst, src) (package cbc)
CallPkgCBCDecrypter(dst, src) ==
    /\ engine = "cbc.decrypter"
    /\ MakeCall(CryptBlocksOf("cbc.decrypter", ekey, ebs, mem, ivref, dst, src), dst, src)

\* The next call on the same engine: one block, disjoint buffers.
FollowSrc == Sub(Arena, 0, ebs)
FollowDst == Sub(Arena, ebs, 2 * ebs)

FollowUp ==
    /\ stage = "called"
    /\ LET r == CryptBlocksOf(engine, ekey, ebs, mem, ivref, FollowDst, FollowSrc)
       IN  /\ r.panic = ""
           /\ mem' = r.mem
           /\ ivref' = r.iv
    /\ stage' = "followed"
    /\ UNCHANGED <<engine, ekey, ebs, plain, civ, inplace, pos, pieces, call, pad, detect>>
    /\ UNCHANGED <<oracle, probeVars, attackVars, pad, detect>>

NextCall ==
    \/ \E dst \in CallArgs, src \in CallArgs : CallECBEncrypter(dst, src)
    \/ \E dst \in CallArgs, src \in CallArgs : CallECBDecrypter(dst, src)
    \/ \E dst \in CallArgs, src \in CallArgs : CallPkgECBEncrypter(dst, src)
    \/ \E dst \in CallArgs, src \in CallArgs : CallPkgECBDecrypter(dst, src)
    \/ \E dst \in CallArgs, src \in CallArgs : CallCBCDecrypter(dst, src)
    \/ \E dst \in CallArgs, src \in CallArgs : CallPkgCBCDecrypter(dst, src)
    \/ FollowUp

SpecCall == InitCall /\ [][NextCall]_vars

\* The call made and what the same next call would have given had it been
\* the first.
CallMade == stage \in {"called", "followed"}
NextCallAlone ==
    CryptBlocksOf(engine, ekey, ebs, call.mem, call.iv, FollowDst, FollowSrc)

\* The panic of each engine on a src that is not whole blocks.
InvalidInputLength ==
    {"input not full blocks", "ecb: input not full blocks", "cbc: input not full blocks"}

\* C13: CryptBlocks of every mode engine panics with "input not full blocks"
\* whenever len(src) is not a multiple of the block size, for every non-zero
\* remainder and whatever the length of dst.
C13_BadLengthPanics ==
    (stage = "called" /\ call.src.len % ebs # 0) =>
        /\ call.panic \in InvalidInputLength
        /\ mem = call.mem

\* A src of one block and all but one byte of the next, with an empty dst.
C13_Witness ==
    /\ stage = "called" /\ engine = "cbcDecrypter"
    /\ call.src.len = 2 * ebs - 1 /\ call.dst.len = 0
    /\ call.panic = "input not full blocks"

\* The panic of the engines that reject overlapping buffers.
InvalidOverlap == {"ecb: invalid buffer overlap", "cbc: invalid buffer overlap"}

\* x and y have a byte in common.
SharesByte(x, y) ==
    \E i \in x.off..(x.off + x.len - 1) : i \in y.off..(y.off + y.len - 1)

\* C14: CryptBlocks of the package ecb engines, of the cryptopals
\* cbcDecrypter and of the package cbc decrypter, called with whole blocks
\* and a dst long enough, panics with an invalid-overlap message and writes
\* nothing whenever dst[:len(src)] and src share memory without being the
\* same region; it returns when they are the same region or disjoint.
C14_InexactOverlapRejected ==
    (/\ stage = "called"
     /\ engine \in {"ecb.encrypter", "ecb.decrypter", "cbcDecrypter", "cbc.decrypter"}
     /\ call.src.len % ebs = 0
     /\ call.dst.len >= call.src.len) =>
        LET d == Sub(call.dst, 0, call.src.len)
        IN  IF SharesByte(d, call.src) /\ d # call.src
            THEN call.panic \in InvalidOverlap /\ mem = call.mem
            ELSE call.panic = ""

\* C15: CryptBlocks with an empty src returns, for every engine, with no
\* byte of memory written and the chaining state as it was, so that the next
\* call on the engine gives the memory and the chaining state it would have
\* given had it been the first.
C15_EmptySrcIsNoOp ==
    (CallMade /\ call.src.len = 0) =>
        /\ call.panic = ""
        /\ IF stage = "called"
           THEN mem = call.mem /\ ivref = call.iv
           ELSE /\ mem = NextCallAlone.mem
                /\ ivref = NextCallAlone.iv

\* An empty src with a dst of some length on the cryptopals cbcDecrypter,
\* and then a call that decrypts a block.
C15_Witness ==
    /\ stage = "followed" /\ engine = "cbcDecrypter"
    /\ call.src.len = 0 /\ call.dst.len > 0
    /\ mem # call.mem
    /\ mem = NextCallAlone.mem
    /\ Read(mem, ivref) = Read(call.mem, FollowSrc)

(***************************************************************************)
(* The padding functions, each called once on the same b and n.            *)
(***************************************************************************)
MaxPadLen == 6
MaxPadSize == 260

PadInputs == { Sample(sd, l) : sd \in Seeds, l \in 0..MaxPadLen }
PadSizes == (-1)..MaxPadSize

InitPad ==
    /\ oracle = NewECBSuffixOracle(0, <<>>, 2)
    /\ ProbeIdle
    /\ DetectIdle
    /\ AttackIdle
    /\ ModeIdle
    /\ \E b \in PadInputs, n \in PadSizes : pad = [NoPad EXCEPT !.b = b, !.n = n]

Called(r) == [called |-> TRUE, panic |-> r.panic, val |-> r.val]

\* PadPKCS7(b, n) (package cryptopals)
CallPadPKCS7 ==
    /\ ~pad.cryptopals.called
    /\ pad' = [pad EXCEPT !.cryptopals = Called(PadPKCS7Call(pad.b, pad.n))]
    /\ UNCHANGED <<oracle, probeVars, attackVars, modeVars, call, detect>>

\* pkcs7.Pad(b, n)
CallPad ==
    /\ ~pad.pkcs7.called
    /\ pad' = [pad EXCEPT !.pkcs7 = Called(pkcs7_Pad(pad.b, pad.n))]
    /\ UNCHANGED <<oracle, probeVars, attackVars, modeVars, call, detect>>

NextPad == CallPadPKCS7 \/ CallPad

SpecPad == InitPad /\ [][NextPad]_vars

\* C16: for every b and every n in 1..255, PadPKCS7(b, n) returns b followed
\* by p bytes of value p, with p = n - (len(b) mod n) in 1..n; the length of
\* the result is a multiple of n, and n bytes are appended when len(b)
\* already is one.
C16_PadPKCS7AppendsPBytesOfP ==
    (pad.cryptopals.called /\ pad.n \in 1..MaxUint8) =>
        LET p == pad.n - (Len(pad.b) % pad.n)
            out == pad.cryptopals.val
        IN  /\ pad.cryptopals.panic = ""
            /\ p \in 1..pad.n
            /\ Len(out) = Len(pad.b) + p
            /\ SubSeq(out, 1, Len(pad.b)) = pad.b
            /\ \A i \in (Len(pad.b) + 1)..Len(out) : out[i] = p
            /\ Len(out) % pad.n = 0
            /\ (Len(pad.b) % pad.n = 0 => Len(out) = Len(pad.b) + pad.n)

\* A b of two whole blocks grows by a third.
C16_Witness ==
    /\ pad.cryptopals.called /\ pad.n \in 2..MaxUint8
    /\ Len(pad.b) = 2 * pad.n
    /\ Len(pad.cryptopals.val) = 3 * pad.n
    /\ pad.cryptopals.val[3 * pad.n] = pad.n

\* C17: for every b and every n >= 1, pkcs7.Pad(b, n) returns b followed by
\* p bytes of value p, with p = n - (len(b) mod n): the result is strictly
\* longer than b and its length is a multiple of n.
C17_PadAppendsPBytesOfP ==
    (pad.pkcs7.called /\ pad.n >= 1) =>
        LET p == pad.n - (Len(pad.b) % pad.n)
            out == pad.pkcs7.val
        IN  /\ pad.pkcs7.panic = ""
            /\ Len(out) = Len(pad.b) + p
            /\ SubSeq(out, 1, Len(pad.b)) = pad.b
            /\ \A i \in (Len(pad.b) + 1)..Len(out) : out[i] = p
            /\ Len(out) > Len(pad.b)
            /\ Len(out) % pad.n = 0

(***************************************************************************)
(* The rounds of RecoverECBSuffixOracleSecret.                             *)
(***************************************************************************)
\* The outer loop has been left: by the round without a match.
LoopLeft == pc \in {"done", "panic"} /\ result.panic # "not ecb"

\* C18: a round of the recovery ends without a match only if none of the 256
\* byte values 0..255 reproduces the reference ciphertext prefix.
C18_NoMatchMeansNoByteMatches ==
    LoopLeft =>
        LET prefix == RoundPrefix(bsFound, res)
            want   == OracleCall(oracle, prefix)
        IN  \A b \in Byte : ~GuessMatches(oracle, prefix, res, want, b)

\* The filler of the round about to start, the reference ciphertext it asks
\* for, and the length of the inputs it submits: filler, res and one byte.
RoundFiller == RoundPrefix(bsFound, res)
RoundWant == OracleCall(oracle, RoundFiller)
RoundInputLen == Len(RoundFiller) + Len(res) + 1

\* C19: at the start of every round the filler is bs - (len(res) mod bs) - 1
\* bytes long, which is in 0..bs-1, so that filler, res and the candidate
\* byte make up a positive number of whole blocks of the oracle (the
\* candidate is the last byte of a block), no longer than the reference
\* ciphertext they are compared with.
C19_CandidateEndsABlock ==
    pc = "loop" =>
        /\ Len(RoundFiller) = oracle.bs - (Len(res) % oracle.bs) - 1
        /\ Len(RoundFiller) \in 0..(oracle.bs - 1)
        /\ RoundInputLen > 0
        /\ RoundInputLen % oracle.bs = 0
        /\ RoundInputLen <= Len(RoundWant)

\* A round that starts with an empty filler, two or more bytes recovered,
\* and inputs as long as the whole reference ciphertext.
C19_Witness ==
    /\ pc = "loop" /\ rounds >= 2
    /\ RoundFiller = <<>>
    /\ RoundInputLen = Len(RoundWant)

\* res agrees with the secret as far as both go.
AgreesWithSecret ==
    LET m == Min(Len(res), Len(oracle.suffix))
    IN  SubSeq(res, 1, m) = SubSeq(oracle.suffix, 1, m)

\* A step leaves res alone or, in a round with a match, appends one byte.
AppendsOneByte ==
    \/ res' = res /\ rounds' = rounds
    \/ /\ Len(res') = Len(res) + 1
       /\ SubSeq(res', 1, Len(res)) = res
       /\ rounds' = rounds + 1

\* C20: res only ever grows by one byte appended per round with a match, no
\* byte of it being changed or removed, and after every round its first
\* min(len(res), len(secret)) bytes are those of the secret.
C20_AppendOnlyPrefixOfSecret ==
    /\ [](AgreesWithSecret /\ Len(res) = rounds)
    /\ [][AppendsOneByte]_vars

\* The whole secret of two or more bytes recovered, and one byte of padding
\* after it.
C20_Witness ==
    /\ pc = "done" /\ Len(oracle.suffix) >= 2
    /\ res = Append(oracle.suffix, 1)
    /\ rounds = Len(oracle.suffix) + 1

\* C21: when the loop stops, in the round without a match, res already holds
\* every byte of the secret.
C21_StopsOnlyWhenSecretExhausted ==
    LoopLeft =>
        /\ Len(res) >= Len(oracle.suffix)
        /\ SubSeq(res, 1, Len(oracle.suffix)) = oracle.suffix

\* C22 as stated: for an empty secret no round has a match, the first round
\* being the one that stops the loop, and the recovery returns the empty
\* secret without a panic.
C22_EmptySecretStopsInFirstRound ==
    (oracle.suffix = <<>> /\ pc # "start") =>
        /\ rounds = 0
        /\ pc # "panic"
        /\ (pc = "done" => result = [panic |-> "", val |-> <<>>])

\* C22: for an empty secret the first round matches the padding byte 1 of
\* the reference, the second round has no match and stops the loop, and the
\* recovery returns the empty secret without a panic.
C22_EmptySecretStopsInSecondRound ==
    (oracle.suffix = <<>> /\ pc # "start") =>
        /\ rounds <= 1
        /\ (rounds = 1 => res = <<1>>)
        /\ pc # "panic"
        /\ (pc = "done" => rounds = 1 /\ result = [panic |-> "", val |-> <<>>])

\* The recovery has returned for an empty secret.
C22_Witness ==
    /\ oracle.suffix = <<>> /\ pc = "done"
    /\ rounds = 1 /\ res = <<1>>
    /\ result = [panic |-> "", val |-> <<>>]

(***************************************************************************)
(* RecoverECBSuffixOracleSecret(oracle) on any oracle without a prefix:    *)
(* one that encrypts input || secret under ECB, or under CBC.              *)
(***************************************************************************)
AnyModeOracles ==
    { NewECBOrCBCPrefixSuffixOracle(k, Sample(sd, bs), <<>>, secret, ecb, bs) :
        k \in Keys, bs \in BlockSizes, sd \in Seeds, secret \in Secrets,
        ecb \in BOOLEAN }

InitAnyMode ==
    /\ oracle \in AnyModeOracles
    /\ ProbeIdle
    /\ DetectIdle
    /\ PadIdle
    /\ ModeIdle
    /\ pc = "start" /\ bsFound = 0 /\ res = <<>>
    /\ rounds = 0 /\ queries = 0 /\ result = NoResult /\ prefixLen = 0

SpecAnyMode == InitAnyMode /\ [][NextAttack]_vars

\* The recovery has failed on the mode of the oracle.
NotECB == pc = "panic" /\ result.panic = "not ecb"

\* C23: the recovery panics with "not ecb" exactly for the oracles
\* IsECBOracle rejects, after the block size has been found and with no
\* reference or guess query made and no round run; for the oracles
\* IsECBOracle accepts it enters the loop, and no step taken in the loop
\* ends in "not ecb".
C23_NotECBCheckedOnceBeforeLoop ==
    /\ [](pc # "start" => (NotECB <=> ~IsECBOracle(oracle)))
    /\ [](NotECB => /\ bsFound = FindBlockSize(oracle)
                    /\ queries = 0 /\ rounds = 0 /\ res = <<>>)
    /\ [][pc = "loop" => result'.panic # "not ecb"]_vars

\* A CBC oracle with a secret, rejected.
C23_Witness ==
    /\ NotECB /\ ~oracle.useECB /\ Len(oracle.suffix) >= 2
    /\ bsFound = oracle.bs /\ queries = 0

(***************************************************************************)
(* The cryptopals cbcDecrypter in place and into a separate buffer.        *)
(***************************************************************************)
\* CryptBlocks(out, buf) over the whole ciphertext, out being B, from the
\* memory as the caller set it up.
DisjointCall == cbcDecrypterCryptBlocks(ekey, ebs, InitialMem, IVBuf, OwnBuf, BufB, BufA)

\* C24: for every ciphertext of one or more blocks, the cryptopals
\* cbcDecrypter called in place, CryptBlocks(buf, buf), leaves in buf the
\* plaintext that CryptBlocks(out, buf) leaves in a disjoint out.
C24_InPlaceEqualsDisjoint ==
    (engine = "cbc" /\ inplace /\ stage = "done") =>
        /\ DisjointCall.panic = ""
        /\ Read(mem, BufA) = Read(DisjointCall.mem, BufB)

\* One call in place over a ciphertext of the most blocks, every block of
\* which differs from its plaintext.
C24_Witness ==
    /\ engine = "cbc" /\ inplace /\ stage = "done" /\ pieces = <<MaxBlocks>>
    /\ \A i \in 0..(NBlocks - 1) : Blk(CBCCiphertext, i) # Blk(plain, i)
    /\ Read(mem, BufA) = Read(DisjointCall.mem, BufB)
    /\ Read(DisjointCall.mem, BufA) = CBCCiphertext

(***************************************************************************)
(* A CBC decrypter and the caller's buffers between its calls.  The        *)
(* ciphertext is handed over in pieces as before; between two calls the    *)
(* caller may overwrite the iv buffer it built the decrypter from and the  *)
(* parts of src and dst it has passed to calls that have returned, and a   *)
(* second decrypter built from the same iv buffer may decrypt the          *)
(* ciphertext buffer into C.                                               *)
(***************************************************************************)
InitOwner ==
    /\ InitMode
    /\ engine \in {"cbc", "cbcpkg"}

\* What the caller overwrites a buffer with.
Scribble(n) == Repeat(MaxUint8, n)

CallerWrites(buf) ==
    /\ mem' = Write(mem, buf.off, Scribble(buf.len))
    /\ UNCHANGED <<engine, ekey, ebs, ivref, plain, civ, inplace, stage, pos, pieces>>
    /\ UNCHANGED <<oracle, probeVars, attackVars, call, pad, detect>>

\* The caller overwrites the iv buffer.
CallerWritesIV == stage = "dec" /\ CallerWrites(IVBuf)

\* The caller overwrites the part of src passed to the calls made so far.
CallerWritesSrc == stage = "dec" /\ pos > 0 /\ CallerWrites(Sub(SrcBuf, 0, pos))

\* The caller overwrites the part of dst passed to the calls made so far.
CallerWritesDst == stage = "dec" /\ pos > 0 /\ CallerWrites(Sub(DstBuf, 0, pos))

\* A second decrypter, built from the same iv buffer, decrypts A into C; its
\* clone of the last block is its own.
OtherDecrypter ==
    /\ stage = "dec"
    /\ LET clone == Slice(Len(mem), ebs)
           r == IF engine = "cbc"
                THEN cbcDecrypterCryptBlocks(ekey, ebs, mem \o Zeros(ebs), IVBuf, clone, BufC, BufA)
                ELSE cbc_decrypter_CryptBlocks(ekey, ebs, mem, IVBuf, BufC, BufA)
       IN  mem' = SubSeq(r.mem, 1, Len(mem))
    /\ UNCHANGED <<engine, ekey, ebs, ivref, plain, civ, inplace, stage, pos, pieces>>
    /\ UNCHANGED <<oracle, probeVars, attackVars, call, pad, detect>>

NextOwner ==
    \/ \E n \in 1..MaxBlocks : CBCDecrypt(n)
    \/ \E n \in 1..MaxBlocks : PkgCBCDecrypt(n)
    \/ CallerWritesIV
    \/ CallerWritesSrc
    \/ CallerWritesDst
    \/ OtherDecrypter

SpecOwner == InitOwner /\ [][NextOwner]_vars

\* The piece a CryptBlocks call has just written is the plaintext of the
\* ciphertext blocks it was given.
PieceIsPlaintext ==
    pieces' # pieces =>
        LET from == BlocksDone * ebs
            to   == from + pieces'[Len(pieces')] * ebs
        IN  SubSeq(Read(mem', CBCDst), from + 1, to) = SubSeq(plain, from + 1, to)

\* C25: whatever the caller has written to the iv buffer and to the parts of
\* src and dst of the calls that have returned, and whatever a second
\* decrypter built from the same iv buffer has done, every CryptBlocks call
\* of a CBC decrypter produces the plaintext of its ciphertext blocks.
C25_ChainingStateOwned == [][PieceIsPlaintext]_vars

(***************************************************************************)
(* isECBCiphertext(b, blockSize) called on any b.                          *)
(***************************************************************************)
MaxDetectLen == 6

DetectBytes == {0, 1}
DetectInputs == SeqsUpTo(DetectBytes, MaxDetectLen)
DetectBlockSizes == 1..MaxBS

InitDetect ==
    /\ oracle = NewECBSuffixOracle(0, <<>>, 2)
    /\ ProbeIdle
    /\ PadIdle
    /\ AttackIdle
    /\ ModeIdle
    /\ \E b \in DetectInputs, blockSize \in DetectBlockSizes :
          detect = [NoDetect EXCEPT !.b = b, !.blockSize = blockSize]

\* isECBCiphertext(b, blockSize)
CallIsECBCiphertext ==
    /\ ~detect.called
    /\ detect' = [detect EXCEPT !.called = TRUE,
                                !.val = isECBCiphertext(detect.b, detect.blockSize)]
    /\ UNCHANGED <<oracle, probeVars, attackVars, modeVars, call, pad>>

NextDetect == CallIsECBCiphertext

SpecDetect == InitDetect /\ [][NextDetect]_vars

\* C26: isECBCiphertext(b, blockSize) is true exactly when len(b) is a
\* multiple of blockSize and two different block positions of b hold the
\* same block; it is false otherwise, for every b that is not whole blocks
\* and for the empty b.
C26_TrueIffRepeatedBlock ==
    detect.called =>
        LET b  == detect.b
            bs == detect.blockSize
        IN  detect.val <=>
               /\ Len(b) % bs = 0
               /\ \E i, j \in 0..((Len(b) \div bs) - 1) :
                     /\ i # j
                     /\ SubSeq(b, i * bs + 1, (i + 1) * bs) = SubSeq(b, j * bs + 1, (j + 1) * bs)

\* Three blocks of two bytes, the first and the last equal and the middle one
\* different.
C26_Witness ==
    /\ detect.called /\ detect.val
    /\ detect.blockSize = 2 /\ Len(detect.b) = 6
    /\ SubSeq(detect.b, 1, 2) = SubSeq(detect.b, 5, 6)
    /\ SubSeq(detect.b, 1, 2) # SubSeq(detect.b, 3, 4)

\* C27: for every secret of length L the loop is left after exactly L + 1
\* rounds with a match, res being the secret and one byte 1 after it, and
\* UnpadPKCS7 returns the secret.
C27_OnePaddingByteGuessed ==
    LoopLeft =>
        /\ rounds = Len(oracle.suffix) + 1
        /\ res = Append(oracle.suffix, 1)
        /\ result = [panic |-> "", val |-> oracle.suffix]

\* C28: a CryptBlocks call that panics (input not full blocks, dst too
\* small, invalid overlap) has written no byte and has left the chaining
\* state as it was, and the valid call that follows on the same engine gives
\* the memory and the chaining state it would have given had it been the
\* first.
C28_FailedCallChangesNothing ==
    (CallMade /\ call.panic # "") =>
        IF stage = "called"
        THEN mem = call.mem /\ ivref = call.iv
        ELSE /\ mem = NextCallAlone.mem
             /\ ivref = NextCallAlone.iv
             /\ Read(mem, ivref) = Read(NextCallAlone.mem, NextCallAlone.iv)

\* The package cbc decrypter after a call rejected for its overlap and a
\* call that decrypted a block.
C28_Witness ==
    /\ stage = "followed" /\ engine = "cbc.decrypter"
    /\ call.panic = "cbc: invalid buffer overlap"
    /\ mem # call.mem
    /\ mem = NextCallAlone.mem
    /\ ivref = FollowSrc

(***************************************************************************)
(* The cost of FindBlockSize (SpecProbe).                                  *)
(***************************************************************************)
\* C29: on every oracle that pads prefix || input || suffix to the block
\* size bs, FindBlockSize returns after at most bs + 1 oracle queries: the
\* one with the 1-byte input and at most bs with the input grown by a byte.
C29_FindBlockSizeQueryBound ==
    \A i \in 1..Len(sizes) :
        /\ sizes[i].queries >= 2
        /\ sizes[i].queries <= oracle.bs + 1

\* The most queries: prefix, one byte and suffix fill whole blocks, so the
\* length changes only at the bs-th byte added.
C29_Witness ==
    /\ Len(sizes) > 0
    /\ oracle.prefix # <<>> /\ oracle.suffix # <<>>
    /\ (Len(oracle.prefix) + 1 + Len(oracle.suffix)) % oracle.bs = 0
    /\ sizes[1].queries = oracle.bs + 1

====
